---- MODULE Spec2Model ----
(***************************************************************************)
(* Model of the urbn backend's simulation stream                           *)
(* (simulation_agents/simulation_agent.py), of the thought log it records  *)
(* into (simulation_agents/thoughts_stream_agent.py) and of the result     *)
(* cache (simulation_agents/data_cache.py).                                *)
(*                                                                         *)
(* Rate-like metrics (traffic_congestion, gdp_growth) and progress are     *)
(* Python floats; they are kept here as fixed-point integers:              *)
(* hundredths for the two metrics, and an exact fraction test for          *)
(* progress.                                                               *)
(***************************************************************************)
EXTENDS Integers, Sequences, FiniteSets, TLC

\* ------------------------------------------------------------------ bounds

\* emit_thought calls made in one behaviour of SpecLog
MaxRecords == 103
\* callbacks registered at once in the thought log
MaxSubscribers == 1
\* generator objects (runs) alive at once
MaxRuns == 2
\* emit_thought calls made in one behaviour of SpecSources
MaxTagged == 7
\* cache_* calls made in one behaviour
MaxPuts == 2
\* the latest hour the clock reaches
MaxClock == 24
\* threads inside emit_thought at once
MaxWriters == 2
\* threads inside data_cache at once
MaxCallers == 2

Runs == 1 .. MaxRuns

\* ------------------------------------------------- thoughts_stream_agent.py

\* class AgentType(Enum): member name |-> value
AgentType ==
    "POLICY_ANALYSIS" :> "PolicyAnalysisAgent" @@
    "CITY_DATA"       :> "CityDataAgent" @@
    "SIMULATION"      :> "SimulationAgent" @@
    "MAP"             :> "MapAgent" @@
    "MAPBOX_AGENT"    :> "MapboxAgent" @@
    "CHAT"            :> "ChatAgent" @@
    "PARSER"          :> "ParserAgent" @@
    "DEBATE"          :> "DebateAgent" @@
    "AGGREGATOR"      :> "AggregatorAgent" @@
    "CONSULTING"      :> "ConsultingAgent"

\* class ThoughtType(Enum): member name |-> value
ThoughtType ==
    "REASONING"   :> "reasoning" @@
    "DECISION"    :> "decision" @@
    "OBSERVATION" :> "observation" @@
    "ACTION"      :> "action" @@
    "ERROR"       :> "error" @@
    "PROGRESS"    :> "progress"

\* Attribute access on an Enum class, e.g. AgentType.SIMULATION: the member's
\* value when the class has a member of that name, AttributeError otherwise.
EnumAttr(enum, name) ==
    IF name \in DOMAIN enum
    THEN [ok |-> TRUE, value |-> enum[name]]
    ELSE [ok |-> FALSE, value |-> "AttributeError"]

\* self.max_thoughts = 100
max_thoughts == 100

\* Python's s[start:] for a list s and any integer start
SliceFrom(s, start) ==
    LET n == Len(s)
        i == IF start < 0
             THEN (IF n + start < 0 THEN 0 ELSE n + start)
             ELSE (IF start > n THEN n ELSE start)
    IN  SubSeq(s, i + 1, n)

\* Python's s[:stop] for a list s and stop >= 0
SliceTo(s, stop) == SubSeq(s, 1, IF stop > Len(s) THEN Len(s) ELSE stop)

\* self.thoughts[-self.max_thoughts:] with the first N kept instead
KeepFirst(s) == SliceTo(s, max_thoughts)

\* self.thoughts[-self.max_thoughts:]
KeepLast(s) == SliceFrom(s, 0 - max_thoughts)

\* The callbacks a caller may register: one that returns, one that raises.
Callbacks == {"returns", "raises"}

\* The sources and kinds the callers of SpecLog record with.
LogSources == {"CITY_DATA"}
LogKinds == {"ACTION"}

VARIABLES
    thoughts,       \* ThoughtsStreamManager.thoughts
    subscribers,    \* ThoughtsStreamManager.subscribers
    recorded,       \* thoughts ever built by emit_thought (stands for the timestamp)
    since_clear,    \* thoughts appended since construction or the last clear_thoughts
    last_emit,      \* how the last emit_thought call ended, and whom it notified
    pc,             \* per run: where the generator is suspended
    params,         \* per run: the arguments of run_simulation_stream
    events,         \* per run: the events yielded so far, in order
    error,          \* per run: the exception the generator raised, if any
    current_metrics, \* per run: the live metrics vector
    phase_index,    \* per run: the loop variable of "for phase_index, phase in enumerate(phases)"
    step,           \* per run: the loop variable of "for step in range(steps_per_phase)"
    context,        \* per run: policy_intent, affected_areas, city_name
    copies,         \* per run: the dict objects current_metrics.copy() has made
    drawn,          \* per run: the changes the random draws gave, step by step
    upstream,       \* what each external collaborator answers when it is called
    documents,      \* the documents directory: file name |-> st_mtime, 0 when absent
    clock,          \* datetime.now(), in hours
    _policy_analysis_cache,     \* data_cache._policy_analysis_cache
    _city_data_cache,           \* data_cache._city_data_cache
    _map_visualization_cache,   \* data_cache._map_visualization_cache
    cache_call,     \* the last call into data_cache and what it returned
    last_put,       \* per cache kind: the last cache_* call since the caches were cleared
    puts,           \* cache_* calls made so far
    writer,         \* per writer thread: its position inside emit_thought and its locals
    caller,         \* per caller thread: its position inside data_cache and its locals
    _workflow,      \* orchestrate._workflow: the compiled graph, "None" until first used
    state,          \* the AgentState of the workflow invocation in flight, and its node
    returned        \* the last orchestrate call: its action and what it returned

logvars == <<thoughts, subscribers, recorded, since_clear, last_emit>>
runvars == <<pc, params, events, error, current_metrics, phase_index, step,
             context, copies, drawn>>
cachevars == <<documents, clock, _policy_analysis_cache, _city_data_cache,
               _map_visualization_cache, cache_call, last_put, puts>>
thrvars == <<writer, caller>>
orchvars == <<_workflow, state, returned>>
vars == <<thoughts, subscribers, recorded, since_clear, last_emit,
          pc, params, events, error, current_metrics, phase_index, step,
          context, copies, drawn, upstream,
          documents, clock, _policy_analysis_cache, _city_data_cache,
          _map_visualization_cache, cache_call, last_put, puts, writer, caller,
          _workflow, state, returned>>

\* The position of the first raising callback in subs, 0 if none raises.
FirstRaising(subs) ==
    IF \E i \in 1 .. Len(subs) : subs[i] = "raises"
    THEN CHOOSE i \in 1 .. Len(subs) :
            /\ subs[i] = "raises"
            /\ \A j \in 1 .. (i - 1) : subs[j] # "raises"
    ELSE 0

\* The log as one value, so that a caller's several emit_thought calls compose.
CurrentLog ==
    [thoughts |-> thoughts, recorded |-> recorded, since_clear |-> since_clear,
     last_emit |-> last_emit]

\* emit_thought with the subscribers notified before the append: a raising
\* subscriber ends the call before the thought is stored.
EmitOnNotifyFirst(log, agent_value, type_value) ==
    LET thought == [id |-> log.recorded + 1, agent |-> agent_value, type |-> type_value]
        appended == Append(log.thoughts, thought)
        bad == FirstRaising(subscribers)
    IN  [thoughts |-> IF bad # 0 THEN log.thoughts
                      ELSE IF Len(appended) > max_thoughts THEN KeepLast(appended)
                      ELSE appended,
         recorded |-> log.recorded + 1,
         since_clear |-> IF bad # 0 THEN log.since_clear ELSE log.since_clear + 1,
         last_emit |-> IF bad = 0
                       THEN [outcome |-> "returned", id |-> log.recorded + 1,
                             notified |-> Len(subscribers)]
                       ELSE [outcome |-> "raised", id |-> log.recorded + 1,
                             notified |-> bad]]

\* ThoughtsStreamManager.emit_thought with the enum members already evaluated
\* by the caller: build the thought, append, trim to the last max_thoughts,
\* notify the subscribers in registration order. A raising subscriber ends the
\* call with its exception, after the append and the trim.
EmitOn(log, agent_value, type_value) ==
    LET thought == [id |-> log.recorded + 1, agent |-> agent_value, type |-> type_value]
        appended == Append(log.thoughts, thought)
        bad == FirstRaising(subscribers)
    IN  [thoughts |-> IF Len(appended) > max_thoughts THEN KeepLast(appended) ELSE appended,
         recorded |-> log.recorded + 1,
         since_clear |-> log.since_clear + 1,
         last_emit |-> IF bad = 0
                       THEN [outcome |-> "returned", id |-> log.recorded + 1,
                             notified |-> Len(subscribers)]
                       ELSE [outcome |-> "raised", id |-> log.recorded + 1,
                             notified |-> bad]]

\* The log becomes the value log.
SetLog(log) ==
    /\ thoughts' = log.thoughts
    /\ recorded' = log.recorded
    /\ since_clear' = log.since_clear
    /\ last_emit' = log.last_emit

\* A caller's emit_thought(AgentType.<agent>, ThoughtType.<kind>, ...) with
\* member names the enums have.
emit_thought(agent, kind) ==
    /\ recorded < MaxRecords
    /\ EnumAttr(AgentType, agent).ok
    /\ EnumAttr(ThoughtType, kind).ok
    /\ SetLog(EmitOn(CurrentLog, EnumAttr(AgentType, agent).value,
                     EnumAttr(ThoughtType, kind).value))
    /\ UNCHANGED subscribers
    /\ UNCHANGED <<runvars, upstream, orchvars, cachevars, thrvars>>

\* ThoughtsStreamManager.get_recent_thoughts
get_recent_thoughts(limit) == SliceFrom(thoughts, 0 - limit)

\* ThoughtsStreamManager.get_thoughts_by_agent, agent being the name of the
\* AgentType member the caller passes
get_thoughts_by_agent(agent, limit) ==
    LET agent_thoughts == SelectSeq(thoughts, LAMBDA t : t.agent = AgentType[agent])
    IN  SliceFrom(agent_thoughts, 0 - limit)

\* The limit arguments callers pass to the two queries.
Limits == {0, 1, 2, 3, 20, 99, 100, 101, 1000}

\* ThoughtsStreamManager.clear_thoughts
clear_thoughts ==
    /\ thoughts' = <<>>
    /\ since_clear' = 0
    /\ UNCHANGED <<subscribers, recorded, last_emit>>
    /\ UNCHANGED <<runvars, upstream, orchvars, cachevars, thrvars>>

\* ThoughtsStreamManager.subscribe
subscribe(callback) ==
    /\ Len(subscribers) < MaxSubscribers
    /\ subscribers' = Append(subscribers, callback)
    /\ UNCHANGED <<thoughts, recorded, since_clear, last_emit>>
    /\ UNCHANGED <<runvars, upstream, orchvars, cachevars, thrvars>>

\* ThoughtsStreamManager.unsubscribe: list.remove drops the first occurrence
unsubscribe(callback) ==
    /\ \E i \in 1 .. Len(subscribers) : subscribers[i] = callback
    /\ LET i == CHOOSE k \in 1 .. Len(subscribers) :
                    /\ subscribers[k] = callback
                    /\ \A j \in 1 .. (k - 1) : subscribers[j] # callback
       IN  subscribers' = SubSeq(subscribers, 1, i - 1)
                          \o SubSeq(subscribers, i + 1, Len(subscribers))
    /\ UNCHANGED <<thoughts, recorded, since_clear, last_emit>>
    /\ UNCHANGED <<runvars, upstream, orchvars, cachevars, thrvars>>

\* ------------------------------------------------------- simulation_agent.py

\* The granularity strings a caller passes: the two the engine names and one
\* it does not.
Granularities == {"Micro", "Macro", "Bogus"}
\* The time_horizon values a caller passes.
TimeHorizons == {5, 10}

\* What the external collaborators do for the whole behaviour:
\*   policy   analyze_policy_document_sync: status "success" or "error"
\*   city     collect_city_data_sync: status "error" (no "numbers" key), or
\*            "success" with the numbers extract_numbers_with_llm returns:
\*            all four null, all four given, population null only, or a
\*            negative traffic percentage
\*   map      generate_map_visualization: status "success" or "error"
\*   summary  model.generate_content: returns text or raises
UpstreamStates ==
    [ policy  : {"success", "error"},
      city    : {"error", "all_null", "all_given", "population_null", "negative_traffic"},
      map     : {"success", "error"},
      summary : {"text", "raises"} ]

NoParams == [granularity |-> "none", time_horizon |-> 0]

\* A metrics vector. traffic_congestion and gdp_growth are in hundredths; none
\* is the set of fields whose value is None.
NoMetrics ==
    [ population |-> 0, housing_units |-> 0, traffic_congestion |-> 0,
      gdp_growth |-> 0, affordability_index |-> 0, air_quality |-> 0,
      public_satisfaction |-> 0, none |-> {} ]

NoContext == [policy_intent |-> "none", affected_areas |-> <<>>, city_name |-> "none"]

\* run_simulation_stream: calls simulate_policy_impact_stream, which being a
\* generator function runs none of its body yet and returns the generator.
run_simulation_stream(r, granularity, time_horizon) ==
    /\ pc[r] = "idle"
    /\ pc' = [pc EXCEPT ![r] = "created"]
    /\ params' = [params EXCEPT ![r] = [granularity |-> granularity,
                                        time_horizon |-> time_horizon]]
    /\ UNCHANGED <<events, error, current_metrics, phase_index, step, context,
                   copies, drawn>>
    /\ UNCHANGED <<logvars, upstream, orchvars, cachevars, thrvars>>

\* phases: the eight stages, in order, with their nominal durations
phases ==
    << [name |-> "Initialization",          duration |-> 2],
       [name |-> "Policy Analysis",         duration |-> 3],
       [name |-> "Infrastructure Planning", duration |-> 4],
       [name |-> "Housing Development",     duration |-> 5],
       [name |-> "Transportation Impact",   duration |-> 4],
       [name |-> "Economic Effects",        duration |-> 3],
       [name |-> "Community Impact",        duration |-> 3],
       [name |-> "Final Assessment",        duration |-> 2] >>

\* agents: the six roles, by name (icon and colour are display strings)
agents ==
    << "Urban Planner", "Transportation Engineer", "Housing Developer",
       "Economic Analyst", "Community Liaison", "Environmental Specialist" >>

\* steps_per_phase = 5 if granularity == "Micro" else 3
steps_per_phase(granularity) == IF granularity = "Micro" THEN 5 ELSE 3

\* change_multiplier = 0.5 if granularity == "Micro" else 1.5, in halves
change_multiplier(granularity) == IF granularity = "Micro" THEN 1 ELSE 3

\* The activities table the step reads: the Micro table when granularity is
\* "Micro", the Macro table otherwise; random.choice picks one of its five
\* entries for the agent.
activities(granularity, agent, index) ==
    [table |-> IF granularity = "Micro" THEN "Micro" ELSE "Macro",
     agent |-> agent, index |-> index]

\* random.randint(a, b): every value of a short range, the ends and one odd
\* value of a long one
RandInt(a, b) == IF b - a <= 7 THEN a .. b ELSE {a, a + 1, b}

\* base_changes[agent]: the (metric, change) pairs in dict order, one sequence
\* per outcome of the random draws. Changes of traffic_congestion and
\* gdp_growth are in hundredths; random.uniform(0.1, 0.3) is drawn from
\* {0.1, 0.2, 0.3}.
base_changes(agent) ==
    CASE agent = "Urban Planner" ->
            {<< <<"housing_units", h>>, <<"gdp_growth", 10>> >> : h \in RandInt(50, 200)}
      [] agent = "Transportation Engineer" ->
            {<< <<"traffic_congestion", 0 - 100 * t>>, <<"public_satisfaction", p>> >> :
                t \in RandInt(1, 5), p \in RandInt(1, 3)}
      [] agent = "Housing Developer" ->
            {<< <<"housing_units", h>>, <<"affordability_index", f>> >> :
                h \in RandInt(100, 500), f \in RandInt(1, 5)}
      [] agent = "Economic Analyst" ->
            {<< <<"gdp_growth", g>>, <<"population", n>> >> :
                g \in {10, 20, 30}, n \in RandInt(100, 500)}
      [] agent = "Community Liaison" ->
            {<< <<"public_satisfaction", p>>, <<"affordability_index", f>> >> :
                p \in RandInt(2, 8), f \in RandInt(1, 3)}
      [] agent = "Environmental Specialist" ->
            {<< <<"air_quality", q>>, <<"public_satisfaction", p>> >> :
                q \in RandInt(1, 5), p \in RandInt(1, 4)}
      [] OTHER -> {<<>>}

\* int(x / 2): Python's int() truncates toward zero
IntOfHalves(x) == IF x >= 0 THEN x \div 2 ELSE 0 - ((0 - x) \div 2)

\* max(0, x)
Max0(x) == IF x < 0 THEN 0 ELSE x

\* The body of "for metric, change in changes.items()" for one pair:
\* adjusted_change = change * change_multiplier, added as it is to
\* traffic_congestion and gdp_growth (every change in hundredths times a
\* multiplier in halves is whole) and through int() to the other metrics,
\* floored at 0. Adding to None is a TypeError.
ApplyChange(metrics, metric, change, granularity) ==
    LET adjusted2 == change * change_multiplier(granularity)
    IN  IF metric \in metrics.none
        THEN [ok |-> FALSE, metrics |-> metrics]
        ELSE IF metric \in {"traffic_congestion", "gdp_growth"}
        THEN [ok |-> TRUE,
              metrics |-> [metrics EXCEPT ![metric] = Max0(@ + adjusted2 \div 2)]]
        ELSE [ok |-> TRUE,
              metrics |-> [metrics EXCEPT ![metric] = Max0(@ + IntOfHalves(adjusted2))]]

\* The whole loop over changes.items(), stopping at the first TypeError.
RECURSIVE ApplyChanges(_, _, _)
ApplyChanges(metrics, changes, granularity) ==
    IF changes = <<>>
    THEN [ok |-> TRUE, metrics |-> metrics]
    ELSE LET first == ApplyChange(metrics, changes[1][1], changes[1][2], granularity)
         IN  IF ~ first.ok
             THEN first
             ELSE ApplyChanges(first.metrics, Tail(changes), granularity)

\* policy_analysis after "if not policy_analysis": the analysis of a successful
\* analyze_policy_document_sync, the empty dict otherwise
policy_analysis ==
    IF upstream.policy = "success"
    THEN [given |-> TRUE, target_city |-> "San Diego",
          policy_intent |-> "Increase housing supply",
          affected_areas |-> <<"Downtown">>]
    ELSE [given |-> FALSE, target_city |-> "San Francisco",
          policy_intent |-> "Policy implementation",
          affected_areas |-> <<>>]

\* city_data.get("numbers", {}): no key on status "error"; otherwise the four
\* keys of extract_numbers_with_llm, each a number or None. none lists the
\* keys whose value is None; traffic and gdp are in hundredths.
base_metrics ==
    CASE upstream.city = "error" ->
            [given |-> FALSE, population_number |-> 0, housing_number |-> 0,
             traffic_percentage |-> 0, gdp_percentage |-> 0, none |-> {}]
      [] upstream.city = "all_null" ->
            [given |-> TRUE, population_number |-> 0, housing_number |-> 0,
             traffic_percentage |-> 0, gdp_percentage |-> 0,
             none |-> {"population_number", "housing_number",
                       "traffic_percentage", "gdp_percentage"}]
      [] upstream.city = "population_null" ->
            [given |-> TRUE, population_number |-> 0, housing_number |-> 400000,
             traffic_percentage |-> 3500, gdp_percentage |-> 300,
             none |-> {"population_number"}]
      [] upstream.city = "negative_traffic" ->
            [given |-> TRUE, population_number |-> 870000, housing_number |-> 400000,
             traffic_percentage |-> 0 - 500, gdp_percentage |-> 300, none |-> {}]
      [] OTHER ->
            [given |-> TRUE, population_number |-> 870000, housing_number |-> 400000,
             traffic_percentage |-> 3500, gdp_percentage |-> 300, none |-> {}]

\* base_metrics.get(key, default): the default only when the key is absent
BaseGet(key, default) == IF base_metrics.given THEN base_metrics[key] ELSE default

\* The metric of current_metrics each key of base_metrics initialises.
MetricOfKey ==
    "population_number" :> "population" @@ "housing_number" :> "housing_units" @@
    "traffic_percentage" :> "traffic_congestion" @@ "gdp_percentage" :> "gdp_growth"

\* current_metrics = {...}: the initial vector
InitialMetrics ==
    [ population          |-> BaseGet("population_number", 1000000),
      housing_units       |-> BaseGet("housing_number", 500000),
      traffic_congestion  |-> BaseGet("traffic_percentage", 3000),
      gdp_growth          |-> BaseGet("gdp_percentage", 250),
      affordability_index |-> 65,
      air_quality         |-> 75,
      public_satisfaction |-> 60,
      none                |-> {MetricOfKey[k] : k \in base_metrics.none} ]

\* The thoughts the collaborators record while the run fetches its context:
\* collect_city_data searches four metrics (an ACTION thought each),
\* extract_numbers_with_llm records an OBSERVATION thought for each number it
\* found, and generate_map_visualization records an ACTION thought on entry
\* and a DECISION or ERROR thought on exit. analyze_policy_document_sync and
\* a failing collect_city_data_sync record nothing more.
UpstreamThoughts ==
    [i \in 1 .. 4 |-> <<"CityDataAgent", "action">>]
    \o [i \in 1 .. (IF base_metrics.given THEN 4 - Cardinality(base_metrics.none) ELSE 0)
            |-> <<"CityDataAgent", "observation">>]
    \o << <<"MapboxAgent", "action">>,
          <<"MapboxAgent", IF upstream.map = "success" THEN "decision" ELSE "error">> >>

RECURSIVE EmitAll(_, _)
EmitAll(log, pairs) ==
    IF pairs = <<>> THEN log
    ELSE EmitAll(EmitOn(log, pairs[1][1], pairs[1][2]), Tail(pairs))

\* "progress" of agent_activity:
\* ((phase_index * steps_per_phase + step + 1) / (len(phases) * steps_per_phase)) * 100
ActivityProgress(pi, st, granularity) ==
    [n |-> (pi * steps_per_phase(granularity) + st + 1) * 100,
     d |-> Len(phases) * steps_per_phase(granularity)]

\* "progress" of phase_complete: ((phase_index + 1) / len(phases)) * 100
PhaseProgress(pi) == [n |-> (pi + 1) * 100, d |-> Len(phases)]

\* The generator of run r moves to location loc having yielded event e.
Yield(r, loc, e) ==
    /\ pc' = [pc EXCEPT ![r] = loc]
    /\ events' = [events EXCEPT ![r] = Append(@, e)]
    /\ UNCHANGED <<params, error>>

\* The generator of run r ends with exception exc.
Raise(r, exc) ==
    /\ pc' = [pc EXCEPT ![r] = "raised"]
    /\ error' = [error EXCEPT ![r] = exc]
    /\ UNCHANGED <<params, events>>

\* emit_thought(agent_type=AgentType.SIMULATION_AGENT, thought_type=...): the
\* arguments are evaluated before the call, so a missing member raises
\* AttributeError with nothing recorded; a raising subscriber raises out of
\* the call with the thought recorded.
SimulationThought(log, kind) ==
    LET agent == EnumAttr(AgentType, "SIMULATION_AGENT")
        type == EnumAttr(ThoughtType, kind)
    IN  IF ~ agent.ok \/ ~ type.ok
        THEN [ok |-> FALSE, exc |-> "AttributeError", log |-> log]
        ELSE LET after == EmitOn(log, agent.value, type.value)
             IN  [ok |-> after.last_emit.outcome = "returned",
                  exc |-> "SubscriberError", log |-> after]

\* Lines 62-150: from the first next() to "yield simulation_start".
RunToStart(r) ==
    LET first == SimulationThought(CurrentLog, "ACTION")
    IN  IF ~ first.ok
        THEN /\ Raise(r, first.exc)
             /\ SetLog(first.log)
             /\ UNCHANGED <<current_metrics, phase_index, step, context, copies, drawn>>
        ELSE /\ SetLog(EmitAll(first.log, UpstreamThoughts))
             /\ context' = [context EXCEPT ![r] =
                    [policy_intent |-> policy_analysis.policy_intent,
                     affected_areas |-> policy_analysis.affected_areas,
                     city_name |-> policy_analysis.target_city]]
             /\ current_metrics' = [current_metrics EXCEPT ![r] = InitialMetrics]
             /\ copies' = [copies EXCEPT ![r] = @ + 1]
             /\ Yield(r, "simulation_start",
                      [type |-> "simulation_start",
                       phase |-> "Initialization",
                       policy_intent |-> policy_analysis.policy_intent,
                       affected_areas |-> policy_analysis.affected_areas,
                       granularity |-> params[r].granularity,
                       time_horizon |-> params[r].time_horizon,
                       metrics |-> InitialMetrics,
                       metrics_object |-> copies[r] + 1,
                       agents |-> agents])
             /\ UNCHANGED <<phase_index, step, drawn>>

\* Lines 157-177: the head of the phase loop for phase pi, to "yield phase_start".
RunToPhaseStart(r, pi) ==
    LET thought == SimulationThought(CurrentLog, "ACTION")
    IN  /\ SetLog(thought.log)
        /\ IF ~ thought.ok
           THEN /\ Raise(r, thought.exc)
                /\ UNCHANGED phase_index
           ELSE /\ phase_index' = [phase_index EXCEPT ![r] = pi]
                /\ Yield(r, "phase_start",
                         [type |-> "phase_start",
                          phase |-> phases[pi + 1].name,
                          phase_index |-> pi,
                          total_phases |-> Len(phases)])
        /\ UNCHANGED <<current_metrics, step, context, copies, drawn>>

\* Lines 189-329: one step st of the current phase, to "yield agent_activity".
RunToActivity(r, st, agent, index, changes) ==
    LET g == params[r].granularity
        applied == ApplyChanges(current_metrics[r], changes, g)
    IN  /\ current_metrics' = [current_metrics EXCEPT ![r] = applied.metrics]
        /\ step' = [step EXCEPT ![r] = st]
        /\ drawn' = [drawn EXCEPT ![r] = Append(@, changes)]
        /\ IF ~ applied.ok
           THEN /\ Raise(r, "TypeError")
                /\ UNCHANGED copies
           ELSE /\ copies' = [copies EXCEPT ![r] = @ + 1]
                /\ Yield(r, "agent_activity",
                         [type |-> "agent_activity",
                          phase |-> phases[phase_index[r] + 1].name,
                          phase_index |-> phase_index[r],
                          step |-> st + 1,
                          total_steps |-> steps_per_phase(g),
                          agent |-> agent,
                          activity |-> activities(g, agent, index),
                          granularity |-> g,
                          metrics |-> applied.metrics,
                          metrics_object |-> copies[r] + 1,
                          progress |-> ActivityProgress(phase_index[r], st, g)])
        /\ UNCHANGED <<phase_index, context>>
        /\ UNCHANGED <<logvars>>

\* Lines 333-342: the end of the current phase, to "yield phase_complete".
RunToPhaseComplete(r) ==
    /\ copies' = [copies EXCEPT ![r] = @ + 1]
    /\ Yield(r, "phase_complete",
             [type |-> "phase_complete",
              phase |-> phases[phase_index[r] + 1].name,
              phase_index |-> phase_index[r],
              metrics |-> current_metrics[r],
              metrics_object |-> copies[r] + 1,
              progress |-> PhaseProgress(phase_index[r])])
    /\ UNCHANGED <<current_metrics, phase_index, step, context, drawn>>
    /\ UNCHANGED <<logvars>>

\* Lines 346-394: the summary, with its fallback sentence when
\* generate_content raises, to "yield simulation_complete". The prompt is
\* built outside the try: formatting a None population or housing_units with
\* ":," is a TypeError.
RunToComplete(r) ==
    /\ IF current_metrics[r].none \cap {"population", "housing_units"} # {}
       THEN /\ Raise(r, "TypeError")
            /\ UNCHANGED copies
       ELSE /\ copies' = [copies EXCEPT ![r] = @ + 1]
            /\ Yield(r, "simulation_complete",
                     [type |-> "simulation_complete",
                      summary |-> IF upstream.summary = "text"
                                  THEN [kind |-> "generated", city_name |-> "none",
                                        time_horizon |-> 0]
                                  ELSE [kind |-> "template",
                                        city_name |-> context[r].city_name,
                                        time_horizon |-> params[r].time_horizon],
                      final_metrics |-> current_metrics[r],
                      metrics_object |-> copies[r] + 1,
                      policy_intent |-> context[r].policy_intent,
                      affected_areas |-> context[r].affected_areas,
                      time_horizon |-> params[r].time_horizon,
                      progress |-> [n |-> 100, d |-> 1]])
    /\ UNCHANGED <<current_metrics, phase_index, step, context, drawn>>
    /\ UNCHANGED <<logvars>>

\* Lines 396-405: the closing thought, after which the generator returns.
RunToReturn(r) ==
    LET thought == SimulationThought(CurrentLog, "DECISION")
    IN  /\ SetLog(thought.log)
        /\ IF ~ thought.ok
           THEN Raise(r, thought.exc)
           ELSE /\ pc' = [pc EXCEPT ![r] = "done"]
                /\ UNCHANGED <<params, events, error>>
        /\ UNCHANGED <<current_metrics, phase_index, step, context, copies, drawn>>

\* next() on the generator of run r: the body runs from where it is suspended
\* to its next yield, its return or an exception.
Pull(r) ==
    /\ \/ /\ pc[r] = "created"
          /\ RunToStart(r)
       \/ /\ pc[r] = "simulation_start"
          /\ RunToPhaseStart(r, 0)
       \/ /\ pc[r] = "phase_start"
          /\ \E a \in 1 .. Len(agents), index \in 1 .. 5 :
                \E changes \in base_changes(agents[a]) :
                    RunToActivity(r, 0, agents[a], index, changes)
       \/ /\ pc[r] = "agent_activity"
          /\ step[r] + 1 < steps_per_phase(params[r].granularity)
          /\ \E a \in 1 .. Len(agents), index \in 1 .. 5 :
                \E changes \in base_changes(agents[a]) :
                    RunToActivity(r, step[r] + 1, agents[a], index, changes)
       \/ /\ pc[r] = "agent_activity"
          /\ step[r] + 1 >= steps_per_phase(params[r].granularity)
          /\ RunToPhaseComplete(r)
       \/ /\ pc[r] = "phase_complete"
          /\ phase_index[r] + 1 < Len(phases)
          /\ RunToPhaseStart(r, phase_index[r] + 1)
       \/ /\ pc[r] = "phase_complete"
          /\ phase_index[r] + 1 >= Len(phases)
          /\ RunToComplete(r)
       \/ /\ pc[r] = "simulation_complete"
          /\ RunToReturn(r)
    /\ UNCHANGED <<subscribers, upstream, orchvars, cachevars, thrvars>>

\* A generator whose body held its yields in a try with a finally clause
\* recording a thought: close() would run that clause.
CloseInFinally(r) ==
    /\ pc[r] \in {"created", "simulation_start", "phase_start", "agent_activity",
                  "phase_complete", "simulation_complete"}
    /\ pc' = [pc EXCEPT ![r] = "closed"]
    /\ SetLog(EmitOn(CurrentLog, AgentType["SIMULATION"], ThoughtType["DECISION"]))
    /\ UNCHANGED <<params, events, error, current_metrics, phase_index, step,
                   context, copies, drawn>>
    /\ UNCHANGED <<subscribers, upstream, orchvars, cachevars, thrvars>>

\* The consumer stops pulling and drops the generator: close() raises
\* GeneratorExit at the yield where it is suspended (or nowhere, if it never
\* started); the body has no try/finally, so nothing more of it runs.
Close(r) ==
    /\ pc[r] \in {"created", "simulation_start", "phase_start", "agent_activity",
                  "phase_complete", "simulation_complete"}
    /\ pc' = [pc EXCEPT ![r] = "closed"]
    /\ UNCHANGED <<params, events, error, current_metrics, phase_index, step,
                   context, copies, drawn>>
    /\ UNCHANGED <<logvars, upstream, orchvars, cachevars, thrvars>>

\* ------------------------------------------------------------ data_cache.py

\* The files the documents directory may hold, in the order sorted() gives.
SortedNames == <<"a.pdf">>
DocNames == {SortedNames[i] : i \in 1 .. Len(SortedNames)}
\* The st_mtime values a present file may have.
Mtimes == {1, 2}
\* The city arguments, the data arguments and the analysis arguments
\* callers pass.
Cities == {"San Francisco", "Austin"}
Values == {"v1", "v2"}
Payloads == [policy_intent : {"Bike lanes", "Rezoning"},
             target_city : {"San Francisco"}]
\* The hours that pass between two calls.
TickSteps == {12}

Kinds == {"policy_analysis", "city_data", "map_viz"}

\* hashlib.md5(text.encode()).hexdigest(), taken to be free of collisions on
\* the texts hashed here
md5(text) == <<"md5", text>>

\* get_document_hash over the file names alone
get_document_hash_names ==
    LET files == SelectSeq(SortedNames, LAMBDA f : documents[f] # 0)
    IN  IF files = <<>> THEN <<"no_documents">> ELSE md5(files)

\* get_document_hash: "no_documents" for an empty directory, otherwise the
\* md5 of "name:mtime" of every file, joined in sorted order
get_document_hash ==
    LET files == SelectSeq(SortedNames, LAMBDA f : documents[f] # 0)
        hash_input == [i \in 1 .. Len(files) |-> <<files[i], documents[files[i]]>>]
    IN  IF files = <<>> THEN <<"no_documents">> ELSE md5(hash_input)

get_cache_key_for_policy_analysis == <<"policy_analysis", get_document_hash>>

get_cache_key_for_city_data(city) == <<"city_data", city, get_document_hash>>

\* json.dumps(policy_analysis, sort_keys=True): the fields in key order
json_dumps(analysis) ==
    << <<"policy_intent", analysis.policy_intent>>,
       <<"target_city", analysis.target_city>> >>

get_cache_key_for_map_visualization(analysis) ==
    <<"map_viz", md5(json_dumps(analysis))>>

\* timedelta(hours=24)
MaxAgeHours == 24

\* age <= timedelta(hours=24)
FreshInclusive(age) == age <= MaxAgeHours

\* age < timedelta(hours=24)
Fresh(age) == age < MaxAgeHours

\* cache.setdefault(key, entry): an entry already stored is kept
DictSetDefault(cache, key, entry) ==
    [k \in (DOMAIN cache) \cup {key} |-> IF k \in DOMAIN cache THEN cache[k] ELSE entry]

\* cache[key] = entry, and del cache[key], on a dict
DictSet(cache, key, entry) ==
    [k \in (DOMAIN cache) \cup {key} |-> IF k = key THEN entry ELSE cache[k]]
DictDel(cache, key) == [k \in (DOMAIN cache) \ {key} |-> cache[k]]
EmptyDict == [k \in {} |-> 0]

NoCall == [op |-> "none", kind |-> "none", arg |-> "none",
           result |-> "None", data_id |-> 0, why |-> "none"]
\* docs and arg are the inputs of the call, at the hour it was made.
NoPut == [docs |-> [n \in DocNames |-> 0], arg |-> "none", data |-> "None",
          data_id |-> 0, at |-> 0]

\* What a call returned: result is the data returned ("None" for None),
\* data_id the identity of the stored object, why the branch taken.
Returned(op, kind, arg, result, data_id, why) ==
    cache_call' = [op |-> op, kind |-> kind, arg |-> arg,
                   result |-> result, data_id |-> data_id, why |-> why]

Stored(kind, arg, data) ==
    /\ puts' = puts + 1
    /\ last_put' = [last_put EXCEPT ![kind] =
                       [docs |-> documents, arg |-> arg, data |-> data,
                        data_id |-> puts + 1, at |-> clock]]
    /\ Returned("put", kind, arg, data, puts + 1, "stored")

cache_policy_analysis(data) ==
    /\ puts < MaxPuts
    /\ LET cache_key == get_cache_key_for_policy_analysis
           current_hash == get_document_hash
       IN  /\ _policy_analysis_cache' =
                 DictSet(_policy_analysis_cache, cache_key,
                         [data |-> data, document_hash |-> current_hash,
                          cached_at |-> clock, data_id |-> puts + 1])
           /\ Stored("policy_analysis", "none", data)
    /\ UNCHANGED <<documents, clock, _city_data_cache, _map_visualization_cache>>
    /\ UNCHANGED <<logvars, runvars, upstream, orchvars, thrvars>>

get_cached_policy_analysis ==
    /\ LET cache_key == get_cache_key_for_policy_analysis
       IN  IF cache_key \in DOMAIN _policy_analysis_cache
           THEN LET cached_data == _policy_analysis_cache[cache_key]
                    current_hash == get_document_hash
                IN  IF cached_data.document_hash = current_hash
                    THEN /\ Returned("get", "policy_analysis", "none",
                                     cached_data.data, cached_data.data_id, "hit")
                         /\ UNCHANGED _policy_analysis_cache
                    ELSE /\ _policy_analysis_cache' =
                               DictDel(_policy_analysis_cache, cache_key)
                         /\ Returned("get", "policy_analysis", "none", "None", 0, "invalid")
           ELSE /\ Returned("get", "policy_analysis", "none", "None", 0, "absent")
                /\ UNCHANGED _policy_analysis_cache
    /\ UNCHANGED <<documents, clock, _city_data_cache, _map_visualization_cache,
                   last_put, puts>>
    /\ UNCHANGED <<logvars, runvars, upstream, orchvars, thrvars>>

cache_city_data(city, data) ==
    /\ puts < MaxPuts
    /\ LET cache_key == get_cache_key_for_city_data(city)
       IN  /\ _city_data_cache' =
                 DictSet(_city_data_cache, cache_key,
                         [data |-> data, cached_at |-> clock, data_id |-> puts + 1])
           /\ Stored("city_data", city, data)
    /\ UNCHANGED <<documents, clock, _policy_analysis_cache, _map_visualization_cache>>
    /\ UNCHANGED <<logvars, runvars, upstream, orchvars, thrvars>>

get_cached_city_data(city) ==
    /\ LET cache_key == get_cache_key_for_city_data(city)
       IN  IF cache_key \in DOMAIN _city_data_cache
           THEN LET cached_data == _city_data_cache[cache_key]
                    cached_at == cached_data.cached_at
                    age == clock - cached_at
                IN  IF Fresh(age)
                    THEN /\ Returned("get", "city_data", city,
                                     cached_data.data, cached_data.data_id, "hit")
                         /\ UNCHANGED _city_data_cache
                    ELSE /\ _city_data_cache' = DictDel(_city_data_cache, cache_key)
                         /\ Returned("get", "city_data", city, "None", 0, "expired")
           ELSE /\ Returned("get", "city_data", city, "None", 0, "absent")
                /\ UNCHANGED _city_data_cache
    /\ UNCHANGED <<documents, clock, _policy_analysis_cache, _map_visualization_cache,
                   last_put, puts>>
    /\ UNCHANGED <<logvars, runvars, upstream, orchvars, thrvars>>

cache_map_visualization(analysis, data) ==
    /\ puts < MaxPuts
    /\ LET cache_key == get_cache_key_for_map_visualization(analysis)
           policy_str == json_dumps(analysis)
           policy_hash == md5(policy_str)
       IN  /\ _map_visualization_cache' =
                 DictSet(_map_visualization_cache, cache_key,
                         [data |-> data, policy_hash |-> policy_hash,
                          cached_at |-> clock, data_id |-> puts + 1])
           /\ Stored("map_viz", analysis, data)
    /\ UNCHANGED <<documents, clock, _policy_analysis_cache, _city_data_cache>>
    /\ UNCHANGED <<logvars, runvars, upstream, orchvars, thrvars>>

get_cached_map_visualization(analysis) ==
    /\ LET cache_key == get_cache_key_for_map_visualization(analysis)
       IN  IF cache_key \in DOMAIN _map_visualization_cache
           THEN LET cached_data == _map_visualization_cache[cache_key]
                    cached_policy_hash == cached_data.policy_hash
                    current_policy_str == json_dumps(analysis)
                    current_policy_hash == md5(current_policy_str)
                IN  IF cached_policy_hash = current_policy_hash
                    THEN /\ Returned("get", "map_viz", analysis,
                                     cached_data.data, cached_data.data_id, "hit")
                         /\ UNCHANGED _map_visualization_cache
                    ELSE /\ _map_visualization_cache' =
                               DictDel(_map_visualization_cache, cache_key)
                         /\ Returned("get", "map_viz", analysis, "None", 0, "invalid")
           ELSE /\ Returned("get", "map_viz", analysis, "None", 0, "absent")
                /\ UNCHANGED _map_visualization_cache
    /\ UNCHANGED <<documents, clock, _policy_analysis_cache, _city_data_cache,
                   last_put, puts>>
    /\ UNCHANGED <<logvars, runvars, upstream, orchvars, thrvars>>

clear_all_caches ==
    /\ _policy_analysis_cache' = EmptyDict
    /\ _city_data_cache' = EmptyDict
    /\ _map_visualization_cache' = EmptyDict
    /\ last_put' = [k \in Kinds |-> NoPut]
    /\ Returned("clear", "none", "none", "None", 0, "cleared")
    /\ UNCHANGED <<documents, clock, puts>>
    /\ UNCHANGED <<logvars, runvars, upstream, orchvars, thrvars>>

\* get_cache_stats: per cache the number of entries and their keys
get_cache_stats ==
    [policy_analysis |-> [count |-> Cardinality(DOMAIN _policy_analysis_cache),
                          keys |-> DOMAIN _policy_analysis_cache],
     city_data |-> [count |-> Cardinality(DOMAIN _city_data_cache),
                    keys |-> DOMAIN _city_data_cache],
     map_visualization |-> [count |-> Cardinality(DOMAIN _map_visualization_cache),
                            keys |-> DOMAIN _map_visualization_cache]]

\* A file of the documents directory is added, or modified (its st_mtime
\* changes).
WriteDocument(name, mtime) ==
    /\ documents[name] # mtime
    /\ documents' = [documents EXCEPT ![name] = mtime]
    /\ UNCHANGED <<clock, _policy_analysis_cache, _city_data_cache,
                   _map_visualization_cache, cache_call, last_put, puts>>
    /\ UNCHANGED <<logvars, runvars, upstream, orchvars, thrvars>>

\* A file of the documents directory is removed.
RemoveDocument(name) ==
    /\ documents[name] # 0
    /\ documents' = [documents EXCEPT ![name] = 0]
    /\ UNCHANGED <<clock, _policy_analysis_cache, _city_data_cache,
                   _map_visualization_cache, cache_call, last_put, puts>>
    /\ UNCHANGED <<logvars, runvars, upstream, orchvars, thrvars>>

\* Time passes between two calls.
Tick(hours) ==
    /\ clock + hours <= MaxClock
    /\ clock' = clock + hours
    /\ UNCHANGED <<documents, _policy_analysis_cache, _city_data_cache,
                   _map_visualization_cache, cache_call, last_put, puts>>
    /\ UNCHANGED <<logvars, runvars, upstream, orchvars, thrvars>>

\* ------------------------------------------------------------------ threads

\* Several threads inside ThoughtsStreamManager.emit_thought at once. The
\* module takes no lock, so a thread may be preempted between any two
\* statements; list.append, the slice and the attribute store are each atomic
\* under the interpreter lock.
Writers == 1 .. MaxWriters

\* A thread that is in no call.
IdleWriter == [pc |-> "idle", thought |-> 0, tmp |-> <<>>]

\* thought = {...}; self.thoughts.append(thought)
emit_thought_append(w, agent, kind) ==
    /\ writer[w].pc = "idle"
    /\ recorded < MaxRecords
    /\ EnumAttr(AgentType, agent).ok
    /\ EnumAttr(ThoughtType, kind).ok
    /\ thoughts' = Append(thoughts, [id |-> recorded + 1,
                                     agent |-> EnumAttr(AgentType, agent).value,
                                     type |-> EnumAttr(ThoughtType, kind).value])
    /\ recorded' = recorded + 1
    /\ since_clear' = since_clear + 1
    /\ writer' = [writer EXCEPT ![w] = [pc |-> "len", thought |-> recorded + 1,
                                        tmp |-> <<>>]]
    /\ UNCHANGED <<subscribers, last_emit, caller>>
    /\ UNCHANGED <<runvars, upstream, orchvars, cachevars>>

\* if len(self.thoughts) > self.max_thoughts:
emit_thought_len(w) ==
    /\ writer[w].pc = "len"
    /\ writer' = [writer EXCEPT ![w].pc =
                     IF Len(thoughts) > max_thoughts THEN "slice" ELSE "notify"]
    /\ UNCHANGED <<logvars, caller>>
    /\ UNCHANGED <<runvars, upstream, orchvars, cachevars>>

\* the right-hand side of the trim: self.thoughts[-self.max_thoughts:]
emit_thought_slice(w) ==
    /\ writer[w].pc = "slice"
    /\ writer' = [writer EXCEPT ![w].pc = "store", ![w].tmp = KeepLast(thoughts)]
    /\ UNCHANGED <<logvars, caller>>
    /\ UNCHANGED <<runvars, upstream, orchvars, cachevars>>

\* the assignment of the trim: self.thoughts = <the slice>
emit_thought_store(w) ==
    /\ writer[w].pc = "store"
    /\ thoughts' = writer[w].tmp
    /\ writer' = [writer EXCEPT ![w].pc = "notify", ![w].tmp = <<>>]
    /\ UNCHANGED <<subscribers, recorded, since_clear, last_emit, caller>>
    /\ UNCHANGED <<runvars, upstream, orchvars, cachevars>>

\* for subscriber in self.subscribers: subscriber(thought); return thought
emit_thought_notify(w) ==
    /\ writer[w].pc = "notify"
    /\ LET bad == FirstRaising(subscribers)
       IN  last_emit' = IF bad = 0
                        THEN [outcome |-> "returned", id |-> writer[w].thought,
                              notified |-> Len(subscribers)]
                        ELSE [outcome |-> "raised", id |-> writer[w].thought,
                              notified |-> bad]
    /\ writer' = [writer EXCEPT ![w] = IdleWriter]
    /\ UNCHANGED <<thoughts, subscribers, recorded, since_clear, caller>>
    /\ UNCHANGED <<runvars, upstream, orchvars, cachevars>>

\* Several threads inside data_cache.get_cached_city_data at once, again with
\* no lock: the membership test, the subscript and the del are each atomic.
Callers == 1 .. MaxCallers

NoEntry == [data |-> "None", cached_at |-> 0, data_id |-> 0]

\* A thread that is in no call; result and error are those of its last call.
IdleCaller == [pc |-> "idle", cache_key |-> <<>>, cached_data |-> NoEntry,
               result |-> "None", error |-> "none"]

\* cache_key = get_cache_key_for_city_data(city);
\* if cache_key in _city_data_cache: ... else return None
get_cached_city_data_in(c, city) ==
    /\ caller[c].pc = "idle"
    /\ LET cache_key == get_cache_key_for_city_data(city)
       IN  caller' = [caller EXCEPT ![c] =
                [pc |-> IF cache_key \in DOMAIN _city_data_cache THEN "read" ELSE "idle",
                 cache_key |-> cache_key, cached_data |-> NoEntry,
                 result |-> "None", error |-> "none"]]
    /\ UNCHANGED <<cachevars, writer>>
    /\ UNCHANGED <<logvars, runvars, upstream, orchvars>>

\* cached_data = _city_data_cache[cache_key], KeyError when the key is gone;
\* then the age test and, for a fresh entry, return cached_data.get("data")
get_cached_city_data_read(c) ==
    /\ caller[c].pc = "read"
    /\ LET cache_key == caller[c].cache_key
       IN  IF cache_key \in DOMAIN _city_data_cache
           THEN LET cached_data == _city_data_cache[cache_key]
                    age == clock - cached_data.cached_at
                IN  caller' = [caller EXCEPT
                        ![c].cached_data = cached_data,
                        ![c].pc = IF Fresh(age) THEN "idle" ELSE "del",
                        ![c].result = IF Fresh(age) THEN cached_data.data ELSE "None"]
           ELSE caller' = [caller EXCEPT ![c].pc = "idle", ![c].error = "KeyError"]
    /\ UNCHANGED <<cachevars, writer>>
    /\ UNCHANGED <<logvars, runvars, upstream, orchvars>>

\* del _city_data_cache[cache_key], KeyError when the key is gone; return None
get_cached_city_data_del(c) ==
    /\ caller[c].pc = "del"
    /\ LET cache_key == caller[c].cache_key
       IN  IF cache_key \in DOMAIN _city_data_cache
           THEN /\ _city_data_cache' = DictDel(_city_data_cache, cache_key)
                /\ caller' = [caller EXCEPT ![c].pc = "idle"]
           ELSE /\ caller' = [caller EXCEPT ![c].pc = "idle", ![c].error = "KeyError"]
                /\ UNCHANGED _city_data_cache
    /\ UNCHANGED <<documents, clock, _policy_analysis_cache, _map_visualization_cache,
                   cache_call, last_put, puts, writer>>
    /\ UNCHANGED <<logvars, runvars, upstream, orchvars>>

\* ------------------------------------------------------------ orchestrate.py

\* The action strings supervisor_agent tests for, in the order of its elif
\* chain.
Actions ==
    {"parse", "chat", "scrape", "simulate", "debate", "aggregate", "city_data",
     "policy_analysis", "thoughts_stream", "generate_map", "run_simulation"}

\* What callers pass as action: the strings above, or one the chain does not
\* know.
ActionInputs == Actions \cup {""}

\* response.content.strip().lower() of the intent analysis: one of the names
\* the prompt offers, or something else.
LLMAnswers ==
    {"parser", "chat", "scraper", "simulate", "debate", "aggregator", "city_data",
     "policy_analysis", "thoughts_stream", "generate_map", "unsure"}

\* create_workflow, add_node: node name |-> the function that runs at it.
Nodes ==
    "supervisor"        :> "supervisor_agent" @@
    "parser"            :> "parser_agent_node" @@
    "chat"              :> "chat_agent_node" @@
    "scraper"           :> "scraper_agent_node" @@
    "simulation"        :> "simulation_agent_node" @@
    "simulation_stream" :> "simulation_stream_agent_node" @@
    "debate"            :> "debate_agent_node" @@
    "aggregator"        :> "aggregator_agent_node" @@
    "city_data"         :> "city_data_agent_node" @@
    "policy_analysis"   :> "policy_analysis_agent_node" @@
    "thoughts_stream"   :> "thoughts_stream_agent_node" @@
    "mapbox"            :> "mapbox_agent_node"

\* create_workflow, add_conditional_edges("supervisor", route_next, {...}):
\* what route_next returns |-> the node that runs next.
ConditionalEdges ==
    "parser"            :> "parser" @@
    "chat"              :> "chat" @@
    "scraper"           :> "scraper" @@
    "simulate"          :> "simulation" @@
    "simulation_stream" :> "simulation_stream" @@
    "debate"            :> "debate" @@
    "aggregator"        :> "aggregator" @@
    "city_data"         :> "city_data" @@
    "policy_analysis"   :> "policy_analysis" @@
    "thoughts_stream"   :> "thoughts_stream" @@
    "mapbox"            :> "mapbox" @@
    "end"               :> "END"

\* No invocation in flight.
NoState == [node |-> "idle", action |-> "", next_agent |-> "", response |-> "",
            messages |-> <<>>]

\* No orchestrate call has returned yet.
NoReturn == [action |-> "none", value |-> "none"]

\* The dict orchestrate returns when workflow.invoke raises.
OrchestrationError == [status |-> "error", from |-> "orchestrate"]

\* orchestrate(action): the initial state is built, get_workflow compiles the
\* graph on first use, and workflow.invoke enters at the supervisor node.
orchestrate(action) ==
    /\ state.node = "idle"
    /\ _workflow' = "compiled"
    /\ state' = [node |-> "supervisor", action |-> action, next_agent |-> "",
                 response |-> "", messages |-> <<>>]
    /\ UNCHANGED returned
    /\ UNCHANGED <<logvars, runvars, upstream, cachevars, thrvars>>

\* The if/elif chain of supervisor_agent; without a known action the model's
\* answer is taken as it comes.
NextAgentOf(action, answer) ==
    CASE action = "parse"           -> "parser"
      [] action = "chat"            -> "chat"
      [] action = "scrape"          -> "scraper"
      [] action = "simulate"        -> "simulation"
      [] action = "debate"          -> "debate"
      [] action = "aggregate"       -> "aggregator"
      [] action = "city_data"       -> "city_data"
      [] action = "policy_analysis" -> "policy_analysis"
      [] action = "thoughts_stream" -> "thoughts_stream"
      [] action = "generate_map"    -> "mapbox"
      [] action = "run_simulation"  -> "simulation_stream"
      [] OTHER                      -> answer

\* supervisor_agent(state), answer being what llm.invoke gives when asked.
supervisor_agent(answer) ==
    /\ state.node = "supervisor"
    /\ state' = [state EXCEPT
                    !.next_agent = NextAgentOf(state.action, answer),
                    !.messages = Append(@, NextAgentOf(state.action, answer)),
                    !.node = "route"]
    /\ UNCHANGED <<_workflow, returned>>
    /\ UNCHANGED <<logvars, runvars, upstream, cachevars, thrvars>>

\* route_next(state): state.get("next_agent", "end"); the key is always set.
route_next == state.next_agent

\* The conditional edge out of the supervisor: the value of route_next is
\* looked up in the dict given to add_conditional_edges. A value that is no
\* key of it raises out of workflow.invoke, and orchestrate returns its error
\* dict.
Route ==
    /\ state.node = "route"
    /\ IF route_next \in DOMAIN ConditionalEdges
       THEN /\ state' = [state EXCEPT !.node = ConditionalEdges[route_next]]
            /\ UNCHANGED returned
       ELSE /\ returned' = [action |-> state.action, value |-> OrchestrationError]
            /\ state' = NoState
    /\ UNCHANGED _workflow
    /\ UNCHANGED <<logvars, runvars, upstream, cachevars, thrvars>>

\* A handler node: its function puts its response into the state, appends
\* its message and sets next_agent to "end"; the node's edge leads to END.
RunNode ==
    /\ state.node \in DOMAIN Nodes \ {"supervisor"}
    /\ state' = [state EXCEPT !.response = [status |-> "handled", from |-> Nodes[state.node]],
                              !.messages = Append(@, Nodes[state.node]),
                              !.next_agent = "end",
                              !.node = "END"]
    /\ UNCHANGED <<_workflow, returned>>
    /\ UNCHANGED <<logvars, runvars, upstream, cachevars, thrvars>>

\* workflow.invoke returns the final state and orchestrate returns its
\* "response".
Return ==
    /\ state.node = "END"
    /\ returned' = [action |-> state.action, value |-> state.response]
    /\ state' = NoState
    /\ UNCHANGED _workflow
    /\ UNCHANGED <<logvars, runvars, upstream, cachevars, thrvars>>

\* ------------------------------------------------------------ specifications

Init ==
    /\ thoughts = <<>>
    /\ subscribers = <<>>
    /\ recorded = 0
    /\ since_clear = 0
    /\ last_emit = [outcome |-> "none", id |-> 0, notified |-> 0]
    /\ pc = [r \in Runs |-> "idle"]
    /\ params = [r \in Runs |-> NoParams]
    /\ events = [r \in Runs |-> <<>>]
    /\ error = [r \in Runs |-> "none"]
    /\ current_metrics = [r \in Runs |-> NoMetrics]
    /\ phase_index = [r \in Runs |-> 0]
    /\ step = [r \in Runs |-> 0]
    /\ context = [r \in Runs |-> NoContext]
    /\ copies = [r \in Runs |-> 0]
    /\ drawn = [r \in Runs |-> <<>>]
    /\ upstream \in UpstreamStates
    /\ documents = [n \in DocNames |-> 0]
    /\ clock = 0
    /\ _policy_analysis_cache = EmptyDict
    /\ _city_data_cache = EmptyDict
    /\ _map_visualization_cache = EmptyDict
    /\ cache_call = NoCall
    /\ last_put = [k \in Kinds |-> NoPut]
    /\ puts = 0
    /\ writer = [w \in Writers |-> IdleWriter]
    /\ caller = [c \in Callers |-> IdleCaller]
    /\ _workflow = "None"
    /\ state = NoState
    /\ returned = NoReturn

\* The simulation stream: runs are started, pulled and abandoned.
Next ==
    \/ \E r \in Runs, g \in Granularities, h \in TimeHorizons : run_simulation_stream(r, g, h)
    \/ \E r \in Runs : Pull(r)
    \/ \E r \in Runs : Close(r)

Spec == Init /\ [][Next]_vars

\* The thought log on its own: callers record, clear, subscribe, unsubscribe.
NextLog ==
    \/ \E a \in LogSources, k \in LogKinds : emit_thought(a, k)
    \/ clear_thoughts
    \/ \E cb \in Callbacks : subscribe(cb)
    \/ \E cb \in Callbacks : unsubscribe(cb)

\* The collaborators of the simulation stream play no part in the log.
InitLog ==
    /\ Init
    /\ upstream = [policy |-> "success", city |-> "all_given",
                   map |-> "success", summary |-> "text"]

SpecLog == InitLog /\ [][NextLog]_vars

\* The thought log recorded into by several agents: a short log whose events
\* carry different source tags.
SourceTags == {"CITY_DATA", "SIMULATION"}

RecordFrom(agent, kind) ==
    /\ recorded < MaxTagged
    /\ emit_thought(agent, kind)

NextSources ==
    \/ \E a \in SourceTags, k \in LogKinds : RecordFrom(a, k)
    \/ clear_thoughts

SpecSources == InitLog /\ [][NextSources]_vars

\* The result cache called by one caller at a time, while documents change
\* and time passes.
NextCache ==
    \/ \E d \in Values : cache_policy_analysis(d)
    \/ get_cached_policy_analysis
    \/ \E c \in Cities, d \in Values : cache_city_data(c, d)
    \/ \E c \in Cities : get_cached_city_data(c)
    \/ \E p \in Payloads, d \in Values : cache_map_visualization(p, d)
    \/ \E p \in Payloads : get_cached_map_visualization(p)
    \/ clear_all_caches
    \/ \E n \in DocNames, m \in Mtimes : WriteDocument(n, m)
    \/ \E n \in DocNames : RemoveDocument(n)
    \/ \E h \in TickSteps : Tick(h)

SpecCache == InitLog /\ [][NextCache]_vars

\* The thought log recorded into by several threads.
NextLogThreads ==
    \/ \E w \in Writers, a \in LogSources, k \in LogKinds : emit_thought_append(w, a, k)
    \/ \E w \in Writers : emit_thought_len(w)
    \/ \E w \in Writers : emit_thought_slice(w)
    \/ \E w \in Writers : emit_thought_store(w)
    \/ \E w \in Writers : emit_thought_notify(w)

SpecLogThreads == InitLog /\ [][NextLogThreads]_vars

\* The city-data cache looked up by several threads, entries being stored
\* and time passing in between.
NextCacheThreads ==
    \/ \E c \in Cities, d \in Values : cache_city_data(c, d)
    \/ \E h \in TickSteps : Tick(h)
    \/ \E c \in Callers, city \in Cities : get_cached_city_data_in(c, city)
    \/ \E c \in Callers : get_cached_city_data_read(c)
    \/ \E c \in Callers : get_cached_city_data_del(c)

SpecCacheThreads == InitLog /\ [][NextCacheThreads]_vars

\* The orchestrator on its own: requests come in one at a time and run
\* through the graph.
NextOrchestrate ==
    \/ \E action \in ActionInputs : orchestrate(action)
    \/ \E answer \in LLMAnswers : supervisor_agent(answer)
    \/ Route
    \/ RunNode
    \/ Return

SpecOrchestrate == InitLog /\ [][NextOrchestrate]_vars

\* ------------------------------------------------------------------- claims

\* The seven metrics of a snapshot.
MetricNames ==
    {"population", "housing_units", "traffic_congestion", "gdp_growth",
     "affordability_index", "air_quality", "public_satisfaction"}

\* A run is fully consumed once its generator has ended, by returning or by
\* raising.
Finished(r) == pc[r] \in {"done", "raised"}

Recognized(r) == params[r].granularity \in {"Micro", "Macro"}

\* The positions of the events of type t in run r.
EventsOfType(r, t) == {i \in 1 .. Len(events[r]) : events[r][i].type = t}

\* The positions of the events of run r that carry a metrics snapshot.
SnapshotEvents(r) ==
    {i \in 1 .. Len(events[r]) :
        events[r][i].type \in {"simulation_start", "agent_activity",
                               "phase_complete", "simulation_complete"}}

\* The positions of the events of run r that carry a progress value.
ProgressEvents(r) ==
    {i \in 1 .. Len(events[r]) :
        events[r][i].type \in {"agent_activity", "phase_complete",
                               "simulation_complete"}}

\* The steps per phase the claims state: 5 for Micro, 3 for Macro.
ClaimedSteps(r) == IF params[r].granularity = "Micro" THEN 5 ELSE 3

\* What identifies an event in the state machine: its type, and for the events
\* of a phase the phase index and the step.
EventKey(e) ==
    IF e.type = "agent_activity" THEN <<e.type, e.phase_index, e.step>>
    ELSE IF e.type \in {"phase_start", "phase_complete"} THEN <<e.type, e.phase_index, 0>>
    ELSE <<e.type, 0, 0>>

\* The event sequence of the state machine NotStarted -> Initializing ->
\* (Phase(i) -> Step(1..n) -> PhaseComplete(i)) for i = 0..7 -> Summarizing ->
\* Completed, with n steps per phase.
StateMachineKeys(n) ==
    [k \in 1 .. (2 + 8 * (n + 2)) |->
        IF k = 1 THEN <<"simulation_start", 0, 0>>
        ELSE IF k = 2 + 8 * (n + 2) THEN <<"simulation_complete", 0, 0>>
        ELSE LET j == k - 2
                 i == j \div (n + 2)
                 o == j % (n + 2)
             IN  IF o = 0 THEN <<"phase_start", i, 0>>
                 ELSE IF o = n + 1 THEN <<"phase_complete", i, 0>>
                 ELSE <<"agent_activity", i, o>>]

\* C1: every fully consumed run with granularity Micro or Macro has emitted
\* exactly one simulation_start, one phase_start and one phase_complete for
\* each of the 8 phases, 8 x steps_per_phase agent_activity events (40 for
\* Micro, 24 for Macro) and exactly one simulation_complete.
C1_EventCounts ==
    \A r \in Runs :
        (Finished(r) /\ Recognized(r)) =>
            /\ Cardinality(EventsOfType(r, "simulation_start")) = 1
            /\ \A i \in 0 .. 7 :
                /\ Cardinality({k \in EventsOfType(r, "phase_start") :
                                    events[r][k].phase_index = i}) = 1
                /\ Cardinality({k \in EventsOfType(r, "phase_complete") :
                                    events[r][k].phase_index = i}) = 1
            /\ Cardinality(EventsOfType(r, "phase_start")) = 8
            /\ Cardinality(EventsOfType(r, "phase_complete")) = 8
            /\ Cardinality(EventsOfType(r, "agent_activity")) = 8 * ClaimedSteps(r)
            /\ Cardinality(EventsOfType(r, "simulation_complete")) = 1

\* C2: the events of a run follow the state machine: at every moment they are
\* a prefix of simulation_start, then for i = 0..7 phase_start(i),
\* agent_activity steps 1..steps_per_phase, phase_complete(i), then
\* simulation_complete; and a fully consumed run has emitted the whole
\* sequence, simulation_complete last.
C2_StateMachineOrder ==
    \A r \in Runs :
        Recognized(r) =>
            LET want == StateMachineKeys(ClaimedSteps(r))
            IN  /\ Len(events[r]) <= Len(want)
                /\ \A k \in 1 .. Len(events[r]) : EventKey(events[r][k]) = want[k]
                /\ Finished(r) => Len(events[r]) = Len(want)

\* progress values are fractions n/d of a percent scale: [n |-> .., d |-> ..]
ProgressLeq(a, b) == a.n * b.d <= b.n * a.d
ProgressIs(a, v) == a.n = v * a.d

\* C3: every progress value lies in [0, 100], progress never decreases along
\* the events of a run, and in a fully consumed run the last agent_activity and
\* the phase_complete of the last phase both carry progress = 100.
C3_ProgressMonotoneTo100 ==
    \A r \in Runs :
        /\ \A k \in ProgressEvents(r) :
            /\ 0 <= events[r][k].progress.n
            /\ events[r][k].progress.n <= 100 * events[r][k].progress.d
        /\ \A k, m \in ProgressEvents(r) :
            k < m => ProgressLeq(events[r][k].progress, events[r][m].progress)
        /\ Finished(r) =>
            /\ \E k \in EventsOfType(r, "agent_activity") :
                /\ \A m \in EventsOfType(r, "agent_activity") : m <= k
                /\ ProgressIs(events[r][k].progress, 100)
            /\ \E k \in EventsOfType(r, "phase_complete") :
                /\ events[r][k].phase_index = 7
                /\ ProgressIs(events[r][k].progress, 100)

\* The metrics snapshot an event carries: "final_metrics" in
\* simulation_complete, "metrics" in the others.
Snapshot(e) == IF e.type = "simulation_complete" THEN e.final_metrics ELSE e.metrics

\* A snapshot field holds a number that is not negative (None is no number).
NonNegative(snapshot, m) == m \notin snapshot.none /\ snapshot[m] >= 0

\* C4: a fully consumed run has emitted its snapshots (simulation_start,
\* agent_activity, phase_complete, final_metrics of simulation_complete), and
\* in every snapshot a run emits none of the seven metric values is negative,
\* whatever the city lookup supplied.
C4_SnapshotsNonNegative ==
    \A r \in Runs :
        /\ \A k \in SnapshotEvents(r) :
            \A m \in MetricNames : NonNegative(Snapshot(events[r][k]), m)
        /\ Finished(r) => EventsOfType(r, "simulation_start") # {}
\* The deltas of the first k steps of run r applied, in step order, to m.
RECURSIVE AfterSteps(_, _, _)
AfterSteps(r, m, k) ==
    IF k = 0 THEN m
    ELSE ApplyChanges(AfterSteps(r, m, k - 1), drawn[r][k], params[r].granularity).metrics

\* The number of agent_activity events among the first i events of run r.
ActivitiesUpTo(r, i) == Cardinality({k \in EventsOfType(r, "agent_activity") : k <= i})

\* C5: a fully consumed run has emitted simulation_complete, and every
\* snapshot reflects exactly the deltas of the steps completed so far, in
\* step order: the k-th agent_activity snapshot is the simulation_start
\* snapshot with the deltas of steps 1..k applied, each phase_complete
\* snapshot equals that of the agent_activity before it, and final_metrics
\* equal the snapshot of the last phase_complete.
C5_SnapshotsReflectSteps ==
    \A r \in Runs :
        /\ \A i \in EventsOfType(r, "agent_activity") :
            events[r][i].metrics =
                AfterSteps(r, events[r][1].metrics, ActivitiesUpTo(r, i))
        /\ \A i \in EventsOfType(r, "phase_complete") :
            /\ events[r][i - 1].type = "agent_activity"
            /\ events[r][i].metrics = events[r][i - 1].metrics
        /\ \A i \in EventsOfType(r, "simulation_complete") :
            /\ events[r][i - 1].type = "phase_complete"
            /\ events[r][i].final_metrics = events[r][i - 1].metrics
        /\ Finished(r) => EventsOfType(r, "simulation_complete") # {}

\* The dict object the engine keeps as current_metrics.
LiveObject == 0

\* C6: a fully consumed run has emitted its snapshots, and every snapshot
\* attached to an event is a dict object of its own: not the engine's live
\* vector and not the object attached to any other event of the run.
C6_SnapshotsIndependent ==
    \A r \in Runs :
        /\ \A i \in SnapshotEvents(r) :
            /\ events[r][i].metrics_object # LiveObject
            /\ \A j \in SnapshotEvents(r) :
                i # j => events[r][i].metrics_object # events[r][j].metrics_object
        /\ Finished(r) => SnapshotEvents(r) # {}

Invoked(r) == pc[r] # "idle"

\* How a run ended, as its consumer sees it.
Outcome(r) ==
    <<pc[r], error[r], [i \in 1 .. Len(events[r]) |-> EventKey(events[r][i])]>>

\* C7: a run invoked with a granularity that is neither "Micro" nor "Macro"
\* emits no event and ends with an error, and the engine does not treat the
\* value as Micro or as Macro: the run does not end the way a run with a
\* recognized granularity ends.
C7_UnrecognizedRejected ==
    \A r \in Runs :
        (Invoked(r) /\ ~ Recognized(r)) =>
            /\ events[r] = <<>>
            /\ pc[r] # "done"
            /\ Finished(r) =>
                \A q \in Runs :
                    (Finished(q) /\ Recognized(q)) => Outcome(q) # Outcome(r)

\* Every collaborator fails or is unavailable.
AllUpstreamFails ==
    /\ upstream.policy = "error"
    /\ upstream.city \in {"error", "all_null"}
    /\ upstream.map = "error"
    /\ upstream.summary = "raises"

\* C8: with every collaborator failing, a fully consumed run has returned
\* normally, nothing raised to the consumer, and its last event is
\* simulation_complete.
C8_CompletesWhenUpstreamFails ==
    \A r \in Runs :
        (AllUpstreamFails /\ Finished(r)) =>
            /\ pc[r] = "done"
            /\ error[r] = "none"
            /\ events[r] # <<>>
            /\ events[r][Len(events[r])].type = "simulation_complete"

\* The documented defaults: population 1,000,000; housing_units 500,000;
\* traffic_congestion 30; gdp_growth 2.5 (the last two in hundredths).
DocumentedDefault ==
    "population" :> 1000000 @@ "housing_units" :> 500000 @@
    "traffic_congestion" :> 3000 @@ "gdp_growth" :> 250

\* The base metrics the city lookup does not supply: all four when it fails,
\* those whose field is null otherwise.
Unsupplied ==
    IF upstream.city = "error"
    THEN DOMAIN DocumentedDefault
    ELSE {MetricOfKey[k] : k \in base_metrics.none}

\* C9: when the city lookup fails or leaves a base metric absent or null, a
\* fully consumed run has emitted simulation_start, and the simulation_start
\* snapshot carries the documented default for that metric.
C9_DefaultsWhenUnsupplied ==
    \A r \in Runs :
        /\ \A i \in EventsOfType(r, "simulation_start") :
            \A m \in Unsupplied :
                /\ m \notin events[r][i].metrics.none
                /\ events[r][i].metrics[m] = DocumentedDefault[m]
        /\ (Finished(r) /\ Unsupplied # {}) => EventsOfType(r, "simulation_start") # {}

\* C10: the thought log never holds more than 100 events; while only record
\* calls are made it holds the min(100, n) most recently recorded of the n
\* events, oldest first, so that after more than 100 records recent(1000)
\* returns exactly the last 100 recorded and none of the older ones.
C10_LogKeepsLast100 ==
    /\ Len(thoughts) <= 100
    /\ Len(thoughts) = (IF since_clear < 100 THEN since_clear ELSE 100)
    /\ \A i \in 1 .. Len(thoughts) : thoughts[i].id = recorded - Len(thoughts) + i
    /\ since_clear > 100 =>
        /\ Len(get_recent_thoughts(1000)) = 100
        /\ \A i \in 1 .. 100 : get_recent_thoughts(1000)[i].id = recorded - 100 + i

\* More than 100 events recorded in a row: the first ones have been evicted.
C10_Witness ==
    /\ since_clear > 100
    /\ Len(thoughts) = 100
    /\ thoughts[1].id = recorded - 99
    /\ thoughts[1].id > 1

\* The last k elements of s, oldest first.
LastOf(s, k) == SubSeq(s, Len(s) - k + 1, Len(s))

Min(a, b) == IF a < b THEN a ELSE b

\* C11: for every limit >= 0, 0 included, and every log content,
\* get_recent_thoughts(limit) is exactly the last min(limit, size) events of
\* the log, oldest first; it is the whole log only when limit >= size.
C11_RecentReturnsLastLimit ==
    \A limit \in Limits :
        /\ get_recent_thoughts(limit) = LastOf(thoughts, Min(limit, Len(thoughts)))
        /\ get_recent_thoughts(limit) = thoughts => limit >= Len(thoughts)

\* The events of the log recorded by the agent, oldest first.
Matching(agent) == SelectSeq(thoughts, LAMBDA t : t.agent = AgentType[agent])

\* C12: for every source and every limit >= 0, get_thoughts_by_agent returns
\* only events of that source, in their chronological order, and exactly the
\* last min(limit, number of matching events) of them; events of other
\* sources neither appear nor count toward the limit.
C12_BySourceReturnsLastMatching ==
    \A agent \in SourceTags, limit \in Limits :
        LET got == get_thoughts_by_agent(agent, limit)
        IN  /\ \A i \in 1 .. Len(got) : got[i].agent = AgentType[agent]
            /\ got = LastOf(Matching(agent), Min(limit, Len(Matching(agent))))

\* C13: an emit_thought call whose notification meets a raising subscriber
\* does not raise to its caller: no call ends by raising.
C13_ObserverErrorNotPropagated == last_emit.outcome # "raised"

\* C14: when a subscriber raises during an emit_thought call, the event of
\* that call is the newest event of the log afterwards, the older events are
\* kept as in a call that returns, and the log holds at most 100 events.
C14_RecordedDespiteObserverError ==
    [][(last_emit'.id # last_emit.id /\ last_emit'.outcome = "raised") =>
            /\ thoughts' # <<>>
            /\ thoughts'[Len(thoughts')].id = last_emit'.id
            /\ Len(thoughts') <= 100
            /\ Len(thoughts') = Min(Len(thoughts) + 1, 100)
            /\ \A i \in 1 .. (Len(thoughts') - 1) :
                  thoughts'[i] = thoughts[Len(thoughts) - (Len(thoughts') - 1) + i]]_vars

\* A call into a full log ended by a subscriber's exception, its event stored.
C14_Witness ==
    /\ last_emit.outcome = "raised"
    /\ since_clear > 100
    /\ Len(thoughts) = 100
    /\ thoughts[Len(thoughts)].id = last_emit.id

\* The cache of a kind, and the key a call of that kind computes from the
\* documents as they are and its argument.
CacheOf(kind) ==
    CASE kind = "policy_analysis" -> _policy_analysis_cache
      [] kind = "city_data" -> _city_data_cache
      [] kind = "map_viz" -> _map_visualization_cache
KeyOf(kind, arg) ==
    CASE kind = "policy_analysis" -> get_cache_key_for_policy_analysis
      [] kind = "city_data" -> get_cache_key_for_city_data(arg)
      [] kind = "map_viz" -> get_cache_key_for_map_visualization(arg)

\* This step is a get_cached_* call of the kind.
GetStep(kind) ==
    /\ cache_call' # cache_call
    /\ cache_call'.op = "get"
    /\ cache_call'.kind = kind

\* The inputs of the get call of this step are those of the last put of the
\* kind: same documents for the kinds keyed by the documents, same argument.
SameInputs(kind) ==
    /\ last_put[kind].data_id # 0
    /\ cache_call'.arg = last_put[kind].arg
    /\ kind \in {"policy_analysis", "city_data"} => documents = last_put[kind].docs

\* C15: for each cache kind, a put followed immediately by a get with
\* unchanged inputs (same documents, same city, same analysis payload, less
\* than 24 hours later) returns exactly the value that was stored.
C15_PutThenGetReturnsStored ==
    [][\A kind \in Kinds :
          (/\ GetStep(kind)
           /\ cache_call.op = "put"
           /\ cache_call.kind = kind
           /\ SameInputs(kind)
           /\ clock - last_put[kind].at < 24)
          => /\ cache_call'.result = last_put[kind].data
             /\ cache_call'.data_id = last_put[kind].data_id]_vars

\* A get that returned the object of the second put, made hours before.
C15_Witness ==
    /\ cache_call.op = "get"
    /\ cache_call.why = "hit"
    /\ cache_call.kind = "city_data"
    /\ cache_call.data_id = last_put["city_data"].data_id
    /\ cache_call.data_id = 2
    /\ clock > last_put["city_data"].at

\* The get call of this step is made with inputs that differ from those of
\* the last put of the kind: a document added, removed or modified, or
\* another analysis payload.
ChangedInputs(kind) ==
    /\ last_put[kind].data_id # 0
    /\ \/ kind = "policy_analysis" /\ documents # last_put[kind].docs
       \/ kind = "map_viz" /\ cache_call'.arg # last_put[kind].arg

\* C16 as stated: after a put, a get made with a changed input reports a miss.
C16_ChangedInputMisses ==
    [][\A kind \in {"policy_analysis", "map_viz"} :
          (GetStep(kind) /\ ChangedInputs(kind)) => cache_call'.result = "None"]_vars

\* C16: after a put, a get made with a changed input never returns the value
\* that put stored; it reports a miss, unless an entry stored by an earlier
\* put under exactly the inputs of the get is still cached, and then it
\* returns that entry's value.
C16_ChangedInputMissesOrEarlier ==
    [][\A kind \in {"policy_analysis", "map_viz"} :
          (GetStep(kind) /\ ChangedInputs(kind)) =>
            LET key == KeyOf(kind, cache_call'.arg)
            IN  /\ cache_call'.data_id # last_put[kind].data_id
                /\ key \notin DOMAIN CacheOf(kind) => cache_call'.result = "None"
                /\ key \in DOMAIN CacheOf(kind) =>
                      /\ cache_call'.result = CacheOf(kind)[key].data
                      /\ cache_call'.data_id = CacheOf(kind)[key].data_id
                      /\ CacheOf(kind)[key].data_id < last_put[kind].data_id]_vars

\* A miss for the documents as they are now, the entry of the last put still
\* stored under the documents as they were.
C16_Witness ==
    /\ cache_call.op = "get"
    /\ cache_call.kind = "policy_analysis"
    /\ cache_call.why = "absent"
    /\ last_put["policy_analysis"].data_id # 0
    /\ documents # last_put["policy_analysis"].docs
    /\ get_cache_key_for_policy_analysis \notin DOMAIN _policy_analysis_cache
    /\ \E k \in DOMAIN _policy_analysis_cache :
          _policy_analysis_cache[k].data_id = last_put["policy_analysis"].data_id

\* C17: get_cached_city_data returns an entry only while its age is under 24
\* hours; a lookup that finds the entry at age >= 24 hours reports a miss and
\* removes it, so that the next lookup misses too until a new put.
C17_CityEntryExpiresAt24h ==
    [][GetStep("city_data") =>
          LET key == KeyOf("city_data", cache_call'.arg)
              present == key \in DOMAIN _city_data_cache
              age == clock - _city_data_cache[key].cached_at
          IN  /\ (present /\ age < 24) =>
                    /\ cache_call'.result = _city_data_cache[key].data
                    /\ cache_call'.data_id = _city_data_cache[key].data_id
                    /\ _city_data_cache' = _city_data_cache
              /\ (present /\ age >= 24) =>
                    /\ cache_call'.result = "None"
                    /\ key \notin DOMAIN _city_data_cache'
              /\ ~present =>
                    /\ cache_call'.result = "None"
                    /\ _city_data_cache' = _city_data_cache
              /\ cache_call'.data_id # 0 => (present /\ age < 24)]_vars

\* A lookup that found the entry exactly 24 hours old: a miss, the entry gone.
C17_Witness ==
    /\ cache_call.op = "get"
    /\ cache_call.kind = "city_data"
    /\ cache_call.why = "expired"
    /\ clock - last_put["city_data"].at = 24
    /\ get_cache_key_for_city_data(cache_call.arg) \notin DOMAIN _city_data_cache

\* C18: after cache_city_data(city, v), every get_cached_city_data(city) made
\* less than 24 hours after it, the entry neither overwritten nor cleared,
\* returns v, whatever happened to the documents in between.
C18_CityKeyedByCityName ==
    [][(/\ GetStep("city_data")
        /\ last_put["city_data"].data_id # 0
        /\ cache_call'.arg = last_put["city_data"].arg
        /\ clock - last_put["city_data"].at < 24)
       => /\ cache_call'.result = last_put["city_data"].data
          /\ cache_call'.data_id = last_put["city_data"].data_id]_vars

\* No thread is inside emit_thought.
Quiescent == \A w \in Writers : writer[w].pc = "idle"

\* C19: under concurrent emit_thought calls, append plus bounded eviction is
\* atomic: whenever the writers have returned, the log holds the
\* min(100, total) most recently appended events, oldest first, none lost
\* other than by oldest-first eviction.
C19_ConcurrentAppendsKeepLast100 ==
    Quiescent =>
        /\ Len(thoughts) = Min(100, recorded)
        /\ \A i \in 1 .. Len(thoughts) : thoughts[i].id = recorded - Len(thoughts) + i

\* C20: under concurrent get and put calls on one key of the result cache,
\* two gets that find the same expired entry included, no call fails with an
\* error and each get returns a miss or the value of an entry that was put
\* under its key and was still valid when read.
C20_ConcurrentCacheCallsAtomic ==
    \A c \in Callers :
        /\ caller[c].error = "none"
        /\ caller[c].result # "None" =>
              /\ caller[c].result = caller[c].cached_data.data
              /\ caller[c].cached_data.data_id \in 1 .. puts

\* The progress value the event at position i of run r has when the run is
\* the only one: it follows from the phase and the step of the event.
ProgressAlone(r, i) ==
    LET e == events[r][i]
    IN  IF e.type = "agent_activity"
        THEN ActivityProgress(e.phase_index, e.step - 1, params[r].granularity)
        ELSE IF e.type = "phase_complete" THEN PhaseProgress(e.phase_index)
        ELSE [n |-> 100, d |-> 1]

\* C21: two runs consumed to the end with their pulls interleaved have each
\* emitted their snapshots, and each run's snapshots and progress values are
\* those of the run alone: the initial vector with the run's own deltas
\* applied in step order, and the progress of the run's own position.
C21_ConcurrentRunsIndependent ==
    \A r, q \in Runs :
        (r # q /\ Finished(r) /\ Finished(q)) =>
            /\ SnapshotEvents(r) # {}
            /\ \A i \in SnapshotEvents(r) :
                  Snapshot(events[r][i]) =
                      AfterSteps(r, InitialMetrics, ActivitiesUpTo(r, i))
            /\ \A i \in ProgressEvents(r) :
                  events[r][i].progress = ProgressAlone(r, i)

\* The policy-analysis entries whose stored fingerprint is not that of the
\* documents as they are now.
StaleKeys ==
    {k \in DOMAIN _policy_analysis_cache :
        _policy_analysis_cache[k].document_hash # get_document_hash}

\* C22: a get_cached_policy_analysis call that reports a miss while the cache
\* holds an entry whose stored fingerprint no longer matches the documents
\* evicts a stale entry: after the call it is no longer in the cache and
\* get_cache_stats counts one entry fewer.
C22_StaleEntryEvictedOnMiss ==
    [][(/\ GetStep("policy_analysis")
        /\ cache_call'.result = "None"
        /\ StaleKeys # {})
       => /\ \E k \in StaleKeys : k \notin DOMAIN _policy_analysis_cache'
          /\ get_cache_stats'.policy_analysis.count
                < get_cache_stats.policy_analysis.count]_vars

\* The collaborators that fail in this behaviour, and the error-kind events
\* the thought log holds.
FailedUpstream ==
    (IF upstream.policy = "error" THEN {"policy"} ELSE {})
    \cup (IF upstream.city = "error" THEN {"city"} ELSE {})
    \cup (IF upstream.map = "error" THEN {"map"} ELSE {})
    \cup (IF upstream.summary = "raises" THEN {"summary"} ELSE {})
ErrorThoughts == {i \in 1 .. Len(thoughts) : thoughts[i].type = ThoughtType["ERROR"]}

\* C23: a run consumed to the end has called its collaborators and absorbed
\* their failures, and the thought log holds an error-kind event for every
\* one that failed: policy analysis error, city data error, map generation
\* error, summary exception.
C23_ErrorThoughtPerAbsorbedFailure ==
    \A r \in Runs :
        Finished(r) => Cardinality(ErrorThoughts) >= Cardinality(FailedUpstream)

\* C24: when the summary generation raises, a run consumed to the end has not
\* failed: it returned normally, its last event is simulation_complete, and
\* the summary of that event is the templated sentence naming the run's city
\* and its time horizon.
C24_SummaryFallback ==
    \A r \in Runs :
        (upstream.summary = "raises" /\ Finished(r)) =>
            /\ pc[r] = "done"
            /\ EventsOfType(r, "simulation_complete") = {Len(events[r])}
            /\ LET e == events[r][Len(events[r])]
               IN  /\ e.summary.kind = "template"
                   /\ e.summary.city_name = policy_analysis.target_city
                   /\ e.summary.time_horizon = params[r].time_horizon

\* The metrics the claims call integer-typed.
IntegerTyped ==
    {"population", "housing_units", "affordability_index", "air_quality",
     "public_satisfaction"}

\* The claimed multiplier, in halves: 0.5 for Micro, 1.5 for Macro.
ClaimedMultiplier(r) == IF params[r].granularity = "Micro" THEN 1 ELSE 3

\* x / 2 truncated toward zero.
TruncatedHalf(x) == IF x >= 0 THEN x \div 2 ELSE 0 - ((0 - x) \div 2)

\* new = max(0, old + adjusted), adjusted = delta x multiplier, truncated toward
\* zero for an integer-typed metric.
ClaimedNew(r, metric, old, delta) ==
    LET adjusted2 == delta * ClaimedMultiplier(r)
        sum == old + IF metric \in IntegerTyped THEN TruncatedHalf(adjusted2)
                     ELSE adjusted2 \div 2
    IN  IF sum < 0 THEN 0 ELSE sum

\* The snapshot a step starts from: that of the event before its
\* agent_activity, the phase_start between them skipped.
SnapshotBefore(r, i) ==
    IF events[r][i - 1].type = "phase_start"
    THEN Snapshot(events[r][i - 2])
    ELSE Snapshot(events[r][i - 1])

\* C25: a fully consumed Micro or Macro run has made its steps, and the
\* snapshot of every agent_activity differs from the snapshot before it by the
\* step rule: each metric in the drawn rule of the chosen actor becomes
\* max(0, old + adjusted), adjusted truncated toward zero for the integer-typed
\* metrics, and every other metric keeps its value.
C25_StepUpdateRule ==
    \A r \in Runs :
        Recognized(r) =>
            /\ Finished(r) => EventsOfType(r, "agent_activity") # {}
            /\ \A i \in EventsOfType(r, "agent_activity") :
                LET changes == drawn[r][ActivitiesUpTo(r, i)]
                    old == SnapshotBefore(r, i)
                    new == events[r][i].metrics
                IN  \A m \in MetricNames :
                        IF \E j \in 1 .. Len(changes) : changes[j][1] = m
                        THEN \A j \in 1 .. Len(changes) :
                                changes[j][1] = m =>
                                    new[m] = ClaimedNew(r, m, old[m], changes[j][2])
                        ELSE new[m] = old[m]

\* C26: a fully consumed Micro or Macro run has emitted its agent_activity
\* events, and the activity text of each is one of the five entries that the
\* table of the run's granularity holds for the actor named in the same
\* event, never an entry of the other table.
C26_ActivityFromGranularityTable ==
    \A r \in Runs :
        Recognized(r) =>
            /\ Finished(r) => EventsOfType(r, "agent_activity") # {}
            /\ \A i \in EventsOfType(r, "agent_activity") :
                /\ events[r][i].activity.table = params[r].granularity
                /\ events[r][i].activity.agent = events[r][i].agent
                /\ events[r][i].activity.index \in 1 .. 5

\* Everything the engine keeps for run r besides its position.
RunState(r) ==
    <<params[r], events[r], error[r], current_metrics[r], phase_index[r], step[r],
      context[r], copies[r], drawn[r]>>

NeverLowered == MetricNames \ {"traffic_congestion"}

\* C28: a fully consumed run has emitted its snapshots, and from each snapshot
\* of a run to every later one population, housing_units, gdp_growth,
\* affordability_index, air_quality and public_satisfaction do not decrease
\* and traffic_congestion does not increase.
C28_SnapshotsMonotone ==
    \A r \in Runs :
        /\ Finished(r) => EventsOfType(r, "simulation_complete") # {}
        /\ \A i, j \in SnapshotEvents(r) :
            i < j =>
                /\ \A m \in NeverLowered :
                      Snapshot(events[r][i])[m] <= Snapshot(events[r][j])[m]
                /\ Snapshot(events[r][j]).traffic_congestion
                      <= Snapshot(events[r][i]).traffic_congestion

\* The thoughts of the log tagged with the simulation agent's source, of the
\* given kind.
SimulationThoughts(kind) ==
    {i \in 1 .. Len(thoughts) :
        thoughts[i].agent = "SimulationAgent" /\ thoughts[i].type = kind}

\* The exceptions that come out of recording a thought.
RecordingErrors == {"AttributeError", "SubscriberError"}

\* C29: recording its thoughts never aborts a run, and when one run alone has
\* been consumed to its return the thought log holds ten events tagged with
\* the simulation agent's source: nine action thoughts (the first pull and the
\* eight phases) and one decision thought.
C29_TenSimulationThoughts ==
    \A r \in Runs :
        Finished(r) =>
            /\ error[r] \notin RecordingErrors
            /\ (pc[r] = "done" /\ \A q \in Runs \ {r} : pc[q] \in {"idle", "created"}) =>
                  /\ Cardinality(SimulationThoughts("action")) = 9
                  /\ Cardinality(SimulationThoughts("decision")) = 1
                  /\ \A i \in 1 .. Len(thoughts) :
                        thoughts[i].agent = "SimulationAgent" =>
                            thoughts[i].type \in {"action", "decision"}

\* The handler function that corresponds to each action string.
HandlerOf ==
    "parse"           :> "parser_agent_node" @@
    "chat"            :> "chat_agent_node" @@
    "scrape"          :> "scraper_agent_node" @@
    "simulate"        :> "simulation_agent_node" @@
    "debate"          :> "debate_agent_node" @@
    "aggregate"       :> "aggregator_agent_node" @@
    "city_data"       :> "city_data_agent_node" @@
    "policy_analysis" :> "policy_analysis_agent_node" @@
    "thoughts_stream" :> "thoughts_stream_agent_node" @@
    "generate_map"    :> "mapbox_agent_node" @@
    "run_simulation"  :> "simulation_stream_agent_node"

\* C30: for each of the eleven action strings the supervisor tests for, the
\* next_agent it chooses is a key of the conditional-edge table, and the
\* orchestrate call returns the response of the handler of that action, not
\* the orchestration error.
C30_RecognizedActionsRouted ==
    /\ (state.node = "route" /\ state.action \in Actions) =>
          route_next \in DOMAIN ConditionalEdges
    /\ returned.action \in Actions =>
          returned.value = [status |-> "handled", from |-> HandlerOf[returned.action]]
====
